---- MODULE Spec2Model ----
(***************************************************************************)
(* Model of mapping.py: the khachkar location-resolution cache, the        *)
(* country-fallback geocoding loop, the cache-file persistence and the     *)
(* marker loop.  One behaviour is a sequence of whole runs of the script   *)
(* that share geocode_cache.csv.                                           *)
(*                                                                         *)
(* A coordinate is written as its decimal text, a point as <<lat, lon>>.    *)
(* The float -> text -> float trip of lat/lon through to_csv/read_csv is   *)
(* exact for such short decimals (repr prints the shortest digits, and     *)
(* read_csv's converter is exact for mantissas below 2^53), so a point is  *)
(* written and read back unchanged.  The query column is different: see    *)
(* read_csv below.                                                         *)
(***************************************************************************)
EXTENDS Integers, Sequences, FiniteSets, TLC

\* ---------------------------------------------------------------- bounds
MaxRecords == 2
MaxFileRows == 1
MaxRuns == 2

\* ------------------------------------------------------------- constants
\* Faulty variant: the preference list put in alphabetical order.
COUNTRIES_Alphabetical == <<"Armenia", "Azerbaijan", "Georgia", "Iran", "Turkey">>

COUNTRIES == <<"Armenia", "Turkey", "Georgia", "Iran", "Azerbaijan">>

MANUAL ==
  [q \in {"Haghartzin (Dilijan)", "Talin Kamsarakan (Talin)"} |->
     IF q = "Haghartzin (Dilijan)" THEN <<"40.8016", "44.8909">>
     ELSE <<"40.3874", "43.8733">>]

\* Python's None, as geocode() returns it when there is no match or the
\* request failed (the RateLimiter swallows the exception).
None == <<>>

\* ------------------------------------------------------- input universes
\* The location strings of the records, listed in Python's str order
\* (code points), which is the order sorted() gives.  "" is what the
\* flattener yields for a khachkar with no "Location" field.
LocationOrder ==
  <<"", "Ani (Kars)", "N/A", "Talin Kamsarakan (Talin)">>

Locations == {LocationOrder[k] : k \in 1..Len(LocationOrder)}

\* The flattened records an input directory may hold (the fields the
\* geocoding and the marker loop read): every location with an image, and
\* one khachkar without an "ImageUrl".
Khachkars ==
  {[location |-> l, imageurl |-> "http://x/img.jpg"] : l \in Locations}
    \cup {[location |-> "Ani (Kars)", imageurl |-> ""]}

\* What the geocoding service may return for a query, besides None.
GeoPoints == {<<"41.64", "42.99">>}

\* The characters of each location string (TLC cannot index a string).
Chars(s) ==
  CASE s = "" -> <<>>
    [] s = "Ani (Kars)" -> <<"A", "n", "i", " ", "(", "K", "a", "r", "s", ")">>
    [] s = "N/A" -> <<"N", "/", "A">>
    [] s = "Talin Kamsarakan (Talin)" ->
         <<"T", "a", "l", "i", "n", " ", "K", "a", "m", "s", "a", "r", "a", "k",
           "a", "n", " ", "(", "T", "a", "l", "i", "n", ")">>
    [] s = "Haghartzin (Dilijan)" ->
         <<"H", "a", "g", "h", "a", "r", "t", "z", "i", "n", " ", "(", "D", "i",
           "l", "i", "j", "a", "n", ")">>

RECURSIVE Join(_)
Join(t) == IF t = <<>> THEN "" ELSE Head(t) \o Join(Tail(t))

\* ------------------------------------------------------------ strip_parens
IsSpace(c) == c = " "

RECURSIVE SkipSpaces(_, _)
SkipSpaces(t, i) ==
  IF i <= Len(t) /\ IsSpace(t[i]) THEN SkipSpaces(t, i + 1) ELSE i

RECURSIVE FindClose(_, _)
FindClose(t, i) ==
  IF i > Len(t) THEN 0 ELSE IF t[i] = ")" THEN i ELSE FindClose(t, i + 1)

\* Index of the last character of a match of  \s*\([^)]*\)  that starts at
\* i, or 0 when there is none.
MatchParen(t, i) ==
  LET j == SkipSpaces(t, i)
  IN  IF j <= Len(t) /\ t[j] = "(" THEN FindClose(t, j + 1) ELSE 0

\* re.sub: leftmost non-overlapping matches are removed.
RECURSIVE SubParens(_, _)
SubParens(t, i) ==
  IF i > Len(t) THEN <<>>
  ELSE LET e == MatchParen(t, i)
       IN  IF e > 0 THEN SubParens(t, e + 1)
           ELSE <<t[i]>> \o SubParens(t, i + 1)

RECURSIVE LStrip(_)
LStrip(t) == IF t # <<>> /\ IsSpace(Head(t)) THEN LStrip(Tail(t)) ELSE t

RECURSIVE RStrip(_)
RStrip(t) ==
  IF t # <<>> /\ IsSpace(t[Len(t)]) THEN RStrip(SubSeq(t, 1, Len(t) - 1)) ELSE t

strip_parens(text) == Join(RStrip(LStrip(SubParens(Chars(text), 1))))

\* ------------------------------------------------------- the cache file
\* A cell of the "query" column of the DataFrame: a Python str, or NaN.
Str(s) == [na |-> FALSE, s |-> s]
NaN == [na |-> TRUE, s |-> ""]

\* The strings read_csv turns into NaN (pandas' default na_values that can
\* occur here; keep_default_na is not changed by the call).
NA_VALUES == {"", "N/A", "NA", "NULL", "NaN", "None", "n/a", "nan", "null"}

\* Faulty variant: read_csv called with keep_default_na=False.
ParseQuery_KeepText(text) == Str(text)

ParseQuery(text) == IF text \in NA_VALUES THEN NaN ELSE Str(text)

\* pd.read_csv(CACHE) if CACHE.exists() else an empty frame.
read_csv(f) ==
  IF f.exists
  THEN [k \in 1..Len(f.rows) |->
          [query |-> ParseQuery(f.rows[k].query),
           lat |-> f.rows[k].lat, lon |-> f.rows[k].lon]]
  ELSE <<>>

\* A query cell as to_csv writes it: NaN becomes the empty field (na_rep).
FormatQuery(cell) == IF cell.na THEN "" ELSE cell.s

\* cache_df.to_csv(CACHE, index=False): the whole frame is written.
to_csv(df) ==
  [exists |-> TRUE,
   rows |-> [k \in 1..Len(df) |->
               [query |-> FormatQuery(df[k].query),
                lat |-> df[k].lat, lon |-> df[k].lon]]]

\* {q: (la, lo) for q, la, lo in zip(...)}: a later row replaces an earlier
\* one with the same key.  (All NaN cells are taken as one key; nothing in
\* the script looks a NaN up.)
LastRow(df, q) ==
  CHOOSE k \in 1..Len(df) :
    df[k].query = q /\ \A j \in (k + 1)..Len(df) : df[j].query # q

DictOf(df) ==
  [q \in {df[k].query : k \in 1..Len(df)} |->
     <<df[LastRow(df, q)].lat, df[LastRow(df, q)].lon>>]

\* Faulty variant: the cache.update(MANUAL) line left out.
SeedManual_Skipped(c) == c

\* Faulty variant: MANUAL merged the other way round, {**MANUAL, **cache}.
SeedManual_KeepsPersisted(c) ==
  [q \in DOMAIN c \cup {Str(m) : m \in DOMAIN MANUAL} |->
     IF q \in DOMAIN c THEN c[q] ELSE MANUAL[q.s]]

\* cache.update(MANUAL)
SeedManual(c) ==
  [q \in DOMAIN c \cup {Str(m) : m \in DOMAIN MANUAL} |->
     IF q.na = FALSE /\ q.s \in DOMAIN MANUAL THEN MANUAL[q.s] ELSE c[q]]

\* sorted(set(df["location"]) - set(cache))
ToResolve(recs, c) ==
  SelectSeq(LocationOrder,
            LAMBDA l : /\ \E k \in 1..Len(recs) : recs[k].location = l
                       /\ Str(l) \notin DOMAIN c)

\* f"{loc_clean}, {ctry}"
CountryQuery(loc_clean, ctry) == loc_clean \o ", " \o ctry

\* "if found:" on a geopy Location or None
Truthy(x) == x # None

\* "if found: break" inside the country loop
BreaksLoop(r) == Truthy(r)

\* Faulty variant: the unqualified query issued without the "if not found:" test.
NeedsBareQuery_Always(f) == TRUE

\* "if not found:" before the unqualified query
NeedsBareQuery(f) == ~Truthy(f)

\* "if found:" that guards the insert into cache and new_rows
IsResolved(f) == Truthy(f)

\* cache[loc_raw] = (found.latitude, found.longitude)
CacheInsert(c, key, point) ==
  [q \in DOMAIN c \cup {Str(key)} |-> IF q = Str(key) THEN point ELSE c[q]]

\* A None in the lat or lon column (pandas holds it as a missing value).
NoneCoord == "None"

\* cache.get(x, (None, None))
CacheGet(c, x) ==
  IF Str(x) \in DOMAIN c THEN c[Str(x)] ELSE <<NoneCoord, NoneCoord>>

\* df["lat"], df["lon"] attached to every record; index is the frame's
\* row label, which dropna keeps.
Attach(recs, c) ==
  [k \in 1..Len(recs) |->
     [index |-> k, location |-> recs[k].location, imageurl |-> recs[k].imageurl,
      lat |-> CacheGet(c, recs[k].location)[1],
      lon |-> CacheGet(c, recs[k].location)[2]]]

\* df.dropna(subset=["lat", "lon"])
DropNa(frame) ==
  SelectSeq(frame, LAMBDA row : row.lat # NoneCoord /\ row.lon # NoneCoord)

\* Faulty variant: the marker loop without its "continue".
SkipsMarker_Never(row) == FALSE

\* "if not img_full: continue" in the marker loop
SkipsMarker(row) == row.imageurl = ""

\* folium.Marker(location=[row["lat"], row["lon"]], ...).add_to(cluster);
\* index names the record the marker was made for.
MarkerOf(row) == [location |-> <<row.lat, row.lon>>, index |-> row.index]

RECURSIVE MarkerLoop(_)
MarkerLoop(frame) ==
  IF frame = <<>> THEN <<>>
  ELSE IF SkipsMarker(Head(frame)) THEN MarkerLoop(Tail(frame))
       ELSE <<MarkerOf(Head(frame))>> \o MarkerLoop(Tail(frame))

\* ------------------------------------------------------------------ state
VARIABLES
  records,      \* the flattened khachkar records (df before geocoding)
  file,         \* geocode_cache.csv: [exists, rows]
  pc,           \* position of the script
  cache_df,     \* the frame read from the file, later concatenated
  cache,        \* the dict: query cell -> <<lat, lon>>
  todo,         \* the sorted locations the for loop iterates
  i,            \* position in todo
  loc_raw, loc_clean, ci, found,
  new_rows,
  notices,      \* the raw strings printed by the "couldn't geocode" line
  df,           \* the frame after dropna
  markers,      \* the markers added to the cluster
  calls,        \* the geocode() calls made for loc_raw: [query, result]
  calledLocs,   \* the locations geocode() was called for in this run
  run,          \* number of the current run
  fileBefore,   \* the file as the current run found it
  written,      \* to_csv was executed in the current run
  prevCalled,   \* locations geocode() was called for in the previous run
  prevResolved, \* locations inserted into new_rows in the previous run
  resolvedEver, \* locations inserted and persisted in some earlier run
  prevNoticed,  \* locations reported as not geocoded in the previous run
  sameAnswers   \* no answer of this run is known to differ from the
                \* previous run's answer to the same query

vars ==
  <<records, file, pc, cache_df, cache, todo, i, loc_raw, loc_clean, ci, found,
    new_rows, notices, df, markers, calls, calledLocs, run, fileBefore,
    written, prevCalled, prevResolved, resolvedEver, prevNoticed, sameAnswers>>

locals == <<cache_df, cache, todo, i, loc_raw, loc_clean, ci, found, new_rows>>
outputs == <<notices, df, markers>>
history ==
  <<run, fileBefore, written, prevCalled, prevResolved, resolvedEver, prevNoticed>>
service == <<calls, calledLocs, sameAnswers>>

\* Sequences over S of length at most n.
SeqUpTo(S, n) == UNION {[1..k -> S] : k \in 0..n}

Inputs == SeqUpTo(Khachkars, MaxRecords)

\* Rows a cache file may hold when a run starts: written by an earlier run
\* for some location, or put there by hand for a MANUAL key.
FileRows == {[query |-> q, lat |-> "40.5", lon |-> "44.5"] : q \in Locations}

\* geocode_cache.csv: absent, or present with its rows (maybe none).
Files ==
  {[exists |-> FALSE, rows |-> <<>>]}
    \cup {[exists |-> TRUE, rows |-> r] : r \in SeqUpTo(FileRows, MaxFileRows)}

Init ==
  /\ records \in Inputs
  /\ file \in Files
  /\ pc = "load"
  /\ cache_df = <<>> /\ cache = <<>> /\ todo = <<>> /\ i = 1
  /\ loc_raw = "" /\ loc_clean = "" /\ ci = 1 /\ found = None
  /\ new_rows = <<>>
  /\ notices = <<>> /\ df = <<>> /\ markers = <<>>
  /\ calls = <<>> /\ calledLocs = {}
  /\ run = 1 /\ fileBefore = file /\ written = FALSE
  /\ prevCalled = {} /\ prevResolved = {} /\ resolvedEver = {}
  /\ prevNoticed = {} /\ sameAnswers = TRUE

\* ---------------------------------------------------------------- actions
\* Lines 63-67 and 75-76.  With no record at all pd.DataFrame([]) has no
\* "location" column and line 76 raises KeyError.
LoadCache ==
  /\ pc = "load"
  /\ cache_df' = read_csv(file)
  /\ cache' = SeedManual(DictOf(cache_df'))
  /\ new_rows' = <<>>
  /\ IF records = <<>>
     THEN pc' = "crashed" /\ todo' = <<>>
     ELSE pc' = "loop" /\ todo' = ToResolve(records, cache')
  /\ i' = 1
  /\ UNCHANGED <<records, file, loc_raw, loc_clean, ci, found>>
  /\ UNCHANGED <<outputs, history, service>>

\* Lines 76-78: the next loc_raw of the for loop.
NextLocation ==
  /\ pc = "loop" /\ i <= Len(todo)
  /\ loc_raw' = todo[i]
  /\ loc_clean' = strip_parens(todo[i])
  /\ found' = None
  /\ ci' = 1
  /\ pc' = "country"
  /\ calls' = <<>>
  /\ UNCHANGED <<records, file, cache_df, cache, todo, i, new_rows>>
  /\ UNCHANGED <<calledLocs, sameAnswers>>
  /\ UNCHANGED <<outputs, history>>

\* Whether the answer r to a query made for loc is known to repeat the
\* previous run's answer to that query (distinct locations of the universe
\* give distinct queries): a location not queried in the previous run had
\* no answer; one reported as not geocoded had None for all six queries;
\* for one resolved then, the answers are not kept, so none is taken as a
\* repetition.
AnswersAsBefore(loc, r) ==
  \/ loc \notin prevCalled
  \/ loc \in prevNoticed /\ r = None

\* One geocode(q) call that returns r, and what is remembered of it.
Geocode(q, r) ==
  /\ r \in GeoPoints \cup {None}
  /\ found' = r
  /\ calls' = Append(calls, [query |-> q, result |-> r])
  /\ calledLocs' = calledLocs \cup {loc_raw}
  /\ sameAnswers' = (sameAnswers /\ AnswersAsBefore(loc_raw, r))

\* Lines 80-83: one iteration of "for ctry in COUNTRIES".
GeocodeCountry ==
  /\ pc = "country"
  /\ \E r \in GeoPoints \cup {None} :
       /\ Geocode(CountryQuery(loc_clean, COUNTRIES[ci]), r)
       /\ IF BreaksLoop(r) \/ ci = Len(COUNTRIES)
          THEN /\ pc' = IF NeedsBareQuery(r) THEN "bare" ELSE "record"
               /\ ci' = ci
          ELSE /\ pc' = "country"
               /\ ci' = ci + 1
  /\ UNCHANGED <<records, file, cache_df, cache, todo, i, loc_raw, loc_clean,
                 new_rows>>
  /\ UNCHANGED <<outputs, history>>

\* Lines 85-86: the unqualified query.
GeocodeBare ==
  /\ pc = "bare"
  /\ \E r \in GeoPoints \cup {None} : Geocode(strip_parens(loc_raw), r)
  /\ pc' = "record"
  /\ UNCHANGED <<records, file, cache_df, cache, todo, i, loc_raw, loc_clean,
                 ci, new_rows>>
  /\ UNCHANGED <<outputs, history>>

\* Lines 88-94.  loc_raw, loc_clean, ctry and found are not read again
\* before lines 76-80 assign them anew, so the model returns them (and the
\* log of this location's calls) to their start values here.
RecordResult ==
  /\ pc = "record"
  /\ IF IsResolved(found)
     THEN /\ cache' = CacheInsert(cache, loc_raw, found)
          /\ new_rows' = Append(new_rows, [query |-> Str(loc_raw),
                                           lat |-> found[1], lon |-> found[2]])
          /\ notices' = notices
     ELSE /\ notices' = Append(notices, loc_raw)
          /\ UNCHANGED <<cache, new_rows>>
  /\ i' = i + 1
  /\ pc' = "loop"
  /\ loc_raw' = "" /\ loc_clean' = "" /\ ci' = 1 /\ found' = None
  /\ calls' = <<>>
  /\ UNCHANGED <<records, file, cache_df, todo, df, markers>>
  /\ UNCHANGED <<calledLocs, sameAnswers>>
  /\ UNCHANGED history

\* Lines 97-99, reached when the for loop is exhausted.
Persist ==
  /\ pc = "loop" /\ i > Len(todo)
  /\ IF new_rows # <<>>
     THEN /\ cache_df' = cache_df \o new_rows
          /\ file' = to_csv(cache_df')
          /\ written' = TRUE
     ELSE UNCHANGED <<cache_df, file, written>>
  /\ pc' = "attach"
  /\ UNCHANGED <<records, cache, todo, i, loc_raw, loc_clean, ci, found,
                 new_rows, run, fileBefore, prevCalled, prevResolved,
                 resolvedEver, prevNoticed>>
  /\ UNCHANGED <<outputs, service>>

\* Lines 103-105.
AttachAndDrop ==
  /\ pc = "attach"
  /\ df' = DropNa(Attach(records, cache))
  /\ pc' = "map"
  /\ UNCHANGED <<records, file, notices, markers>>
  /\ UNCHANGED <<locals, history, service>>

\* Lines 109-140.  With no geocoded record the means of line 109 are NaN
\* and folium.Map(location=[nan, nan]) raises ValueError ("Location values
\* cannot contain NaNs"): the script ends there, without a map.
BuildMap ==
  /\ pc = "map"
  /\ IF df = <<>>
     THEN pc' = "crashed" /\ markers' = <<>>
     ELSE pc' = "done" /\ markers' = MarkerLoop(df)
  /\ UNCHANGED <<records, file, notices, df>>
  /\ UNCHANGED <<locals, history, service>>

ResolvedLocs == {new_rows[k].query.s : k \in 1..Len(new_rows)}

\* The script is started again over the same input directory; the cache
\* file is what the previous run left.
NextRun ==
  /\ pc \in {"done", "crashed"}
  /\ run < MaxRuns
  /\ run' = run + 1
  /\ pc' = "load"
  /\ cache_df' = <<>> /\ cache' = <<>> /\ todo' = <<>> /\ i' = 1
  /\ loc_raw' = "" /\ loc_clean' = "" /\ ci' = 1 /\ found' = None
  /\ new_rows' = <<>>
  /\ notices' = <<>> /\ df' = <<>> /\ markers' = <<>>
  /\ calls' = <<>> /\ calledLocs' = {}
  /\ fileBefore' = file /\ written' = FALSE
  /\ prevCalled' = calledLocs
  /\ prevResolved' = ResolvedLocs
  /\ resolvedEver' = resolvedEver \cup ResolvedLocs
  /\ prevNoticed' = {notices[k] : k \in 1..Len(notices)}
  /\ sameAnswers' = TRUE
  /\ UNCHANGED <<records, file>>

Next ==
  \/ LoadCache
  \/ NextLocation
  \/ GeocodeCountry
  \/ GeocodeBare
  \/ RecordResult
  \/ Persist
  \/ AttachAndDrop
  \/ BuildMap
  \/ NextRun

Spec == Init /\ [][Next]_vars

\* ------------------------------------------------------------ properties
Range(t) == {t[k] : k \in 1..Len(t)}

LoopEnded == pc \in {"attach", "map", "done"} \/ (pc = "crashed" /\ records # <<>>)

RunEnded == pc \in {"done", "crashed"}

\* C1: whatever the cache file held, a key of MANUAL is never among the
\* locations the resolution loop iterates, and geocode() is never called on
\* behalf of one.
C1_ManualNeverQueried ==
  \A m \in DOMAIN MANUAL :
    /\ m \notin Range(todo)
    /\ m \notin calledLocs
    /\ pc \in {"country", "bare", "record"} => loc_raw # m

\* A finished run over an input with a MANUAL location, started without a
\* cache file, in which geocode() was called for another location.
C1_Witness ==
  /\ pc = "done"
  /\ ~fileBefore.exists
  /\ \E k \in 1..Len(records) : records[k].location \in DOMAIN MANUAL
  /\ calledLocs # {}

\* The country-qualified queries of the claim, in the claim's order.
FixedOrder == <<"Armenia", "Turkey", "Georgia", "Iran", "Azerbaijan">>

\* C4: the calls made for a location are the queries "<cleaned>, <country>"
\* in the order Armenia, Turkey, Georgia, Iran, Azerbaijan; a country's
\* query follows only empty results, and a non-empty result is the last
\* call made for the location.  So a success under Georgia is the third
\* call, after Armenia and Turkey.
C4_FallbackOrder ==
  (pc \in {"country", "bare", "record"} /\ calls # <<>>) =>
    LET cleaned == strip_parens(loc_raw)
    IN  \A k \in 1..Len(calls) :
          /\ k <= Len(FixedOrder) =>
               calls[k].query = cleaned \o ", " \o FixedOrder[k]
          /\ k < Len(calls) => calls[k].result = None
          /\ calls[k].query = "Ani, Georgia" /\ calls[k].result # None =>
               /\ k >= 2
               /\ calls[1].query = "Ani, Armenia"
               /\ \A j \in 1..(k - 1) : calls[j].result = None

\* "Ani (Kars)" resolved by its Georgia query, after Armenia and Turkey
\* returned nothing.
C4_Witness ==
  /\ pc = "record"
  /\ loc_raw = "Ani (Kars)"
  /\ Len(calls) = 3
  /\ calls[3].query = "Ani, Georgia"
  /\ found # None

\* The positions of the unqualified query among the calls of loc_raw.
BareCalls ==
  LET cleaned == strip_parens(loc_raw)
  IN  {k \in 1..Len(calls) : calls[k].query = cleaned}

\* C10: for a location whose queries are over, the unqualified query was
\* issued at most once, and exactly when the five country queries all
\* returned nothing, as the sixth call; so the location cost between 1 and
\* 6 calls, and 6 when nothing resolved it.
C10_BareFallback ==
  /\ Len(calls) <= 6
  /\ pc = "record" =>
       /\ Len(calls) >= 1
       /\ Cardinality(BareCalls) <= 1
       /\ BareCalls # {} <=>
            (Len(calls) >= 5 /\ \A k \in 1..5 : calls[k].result = None)
       /\ BareCalls # {} => BareCalls = {6} /\ Len(calls) = 6
       /\ found = None => Len(calls) = 6

\* A location that none of its six queries resolved.
C10_Witness ==
  /\ pc = "record"
  /\ found = None
  /\ Len(calls) = 6
  /\ calls[6].query = "Ani"

\* The cache file held, when the run started, a row for a MANUAL key with
\* other coordinates.
ConflictingRow ==
  \E k \in 1..Len(fileBefore.rows) :
    /\ fileBefore.rows[k].query \in DOMAIN MANUAL
    /\ <<fileBefore.rows[k].lat, fileBefore.rows[k].lon>>
         # MANUAL[fileBefore.rows[k].query]

\* C9: when the cache file holds a row for a MANUAL key with other
\* coordinates, from the seeding on the cache maps every MANUAL key to its
\* MANUAL point (no insert replaces it), and every output record and marker
\* of such a location is at the MANUAL point.
C9_ManualWins ==
  (ConflictingRow /\ pc # "load") =>
    /\ \A m \in DOMAIN MANUAL :
         Str(m) \in DOMAIN cache /\ cache[Str(m)] = MANUAL[m]
    /\ \A k \in 1..Len(df) :
         df[k].location \in DOMAIN MANUAL =>
           <<df[k].lat, df[k].lon>> = MANUAL[df[k].location]
    /\ \A k \in 1..Len(markers) :
         records[markers[k].index].location \in DOMAIN MANUAL =>
           markers[k].location = MANUAL[records[markers[k].index].location]

\* A finished run that found such a row, inserted a newly resolved location
\* and put a marker for a record with the MANUAL location.
C9_Witness ==
  /\ pc = "done"
  /\ ConflictingRow
  /\ new_rows # <<>>
  /\ \E k \in 1..Len(markers) :
       records[markers[k].index].location \in DOMAIN MANUAL

\* The markers made for the record with row label n.
MarkersFor(n) == {k \in 1..Len(markers) : markers[k].index = n}

\* The records whose location has a point in the cache after resolution.
Geocoded == {n \in 1..Len(records) : Str(records[n].location) \in DOMAIN cache}

\* C8 as stated: a finished run has made exactly one marker for every
\* geocoded record, at its cached point, and as many markers as records
\* survive the drop, an empty image URL included.
C8_Original ==
  pc = "done" =>
    /\ \A n \in Geocoded :
         /\ Cardinality(MarkersFor(n)) = 1
         /\ \A k \in MarkersFor(n) :
              markers[k].location = cache[Str(records[n].location)]
    /\ Len(markers) = Len(df)

\* C8 amended: a finished run has made exactly one marker, at the cached
\* point, for every geocoded record whose image URL is not empty, and none
\* for any other record; the markers are as many as the surviving records
\* with a non-empty image URL.
C8_MarkerPerImageRecord ==
  pc = "done" =>
    /\ {df[k].index : k \in 1..Len(df)} = Geocoded
    /\ \A n \in 1..Len(records) :
         IF n \in Geocoded /\ records[n].imageurl # ""
         THEN /\ Cardinality(MarkersFor(n)) = 1
              /\ \A k \in MarkersFor(n) :
                   markers[k].location = cache[Str(records[n].location)]
         ELSE MarkersFor(n) = {}
    /\ Len(markers) = Cardinality({k \in 1..Len(df) : df[k].imageurl # ""})

\* A finished run with a geocoded record that has no image URL and a
\* marker for another record.
C8_Witness ==
  /\ pc = "done"
  /\ \E k \in 1..Len(df) : df[k].imageurl = ""
  /\ markers # <<>>

\* The spellings of a missing value among the locations of the universe.
MissingSpellings == {"", "N/A"}

C3_ResolvedNeverRequeried ==
  /\ calledLocs \cap (resolvedEver \cup DOMAIN MANUAL) = {}
  /\ run >= 2 => calledLocs \subseteq (prevCalled \ prevResolved)

\* The number of notices printed for loc.
NoticesFor(loc) == Cardinality({k \in 1..Len(notices) : notices[k] = loc})

\* C5: a location none of whose six queries returned a result does not end
\* the run with an error; it is in neither the cache nor the rows to be
\* written, it has exactly one notice, and no output record or marker has
\* it.
C5_UnresolvedIsHarmless ==
  \A loc \in Range(notices) :
    /\ pc # "crashed"
    /\ Str(loc) \notin DOMAIN cache
    /\ \A k \in 1..Len(new_rows) : new_rows[k].query # Str(loc)
    /\ written =>
         \A k \in (Len(fileBefore.rows) + 1)..Len(file.rows) :
           file.rows[k].query # loc
    /\ NoticesFor(loc) = 1
    /\ \A k \in 1..Len(df) : df[k].location # loc
    /\ \A k \in 1..Len(markers) : records[markers[k].index].location # loc

\* No two rows of the file have the same query string.
DuplicateFree(f) ==
  \A j, k \in 1..Len(f.rows) : f.rows[j].query = f.rows[k].query => j = k

\* C6: a run that finds the cache file absent or without duplicate query
\* strings leaves it without duplicates (so it never gets any, over any
\* number of runs).
C6_NoDuplicateRows == DuplicateFree(fileBefore) => DuplicateFree(file)

\* C7: when the writing step of a run is over, every row the file held
\* before is still in it, the rows after them are one per location resolved
\* in this run, none with a MANUAL key, and with nothing newly resolved the
\* file was not written.
C7_AppendOnly ==
  LoopEnded =>
    /\ \A k \in 1..Len(fileBefore.rows) :
         \E j \in 1..Len(file.rows) : file.rows[j] = fileBefore.rows[k]
    /\ Len(file.rows) = Len(fileBefore.rows) + Len(new_rows)
    /\ {file.rows[j].query : j \in (Len(fileBefore.rows) + 1)..Len(file.rows)}
         = ResolvedLocs
    /\ ResolvedLocs \cap DOMAIN MANUAL = {}
    /\ new_rows = <<>> => (~written /\ file = fileBefore)

====
